---- MODULE Spec2Model ----
(***************************************************************************)
(* Model of the Smart Money Tracker of src/bot.py: the scheduler loop      *)
(* bot_main_loop, SmartMoneyTracker.refresh_wallets, check_new_trades and  *)
(* check_convergence, with the tracked wallet map, the per-wallet          *)
(* monitoring cursor (last_seen_trade_ts) and the recent-signal window     *)
(* (specification Spec), and of the functions that keep no state: the      *)
(* merge and the tiers of the wallet qualifier and RiskManager.            *)
(* calculate_bet of src/bot.py and src/risk_manager.py and the retry loop   *)
(* of api_get (specification Calls, CallsLive with the fairness of the     *)
(* calling thread).  Specification Workers is the deployment of            *)
(* src/gunicorn_conf.py: one bot thread in each worker process.            *)
(*                                                                         *)
(* Units: money is in US cents and prices/probabilities are in hundredths  *)
(* (0.92 is 92), so that the float comparisons of the source are integer   *)
(* comparisons here.  Timestamps are integer seconds as in the source.     *)
(***************************************************************************)
EXTENDS Integers, Sequences, FiniteSets, TLC

VARIABLES
    env,                  \* the environment universe of this run (see Environments)
    pc,                   \* position of the scheduler thread in bot_main_loop
    clock,                \* wall clock, seconds
    ticks,                \* iterations of the while-loop started so far
    fetched_total,        \* trades returned by the activity feed so far (bounded)
    credentials,          \* which of TELEGRAM_BOT_TOKEN and TELEGRAM_CHAT_ID are set
    last_scanner_run,     \* bot_main_loop local
    last_tracker_refresh, \* bot_main_loop local
    tracked_wallets,      \* SmartMoneyTracker.tracked_wallets: address -> SmartWallet
    recent_signals,       \* SmartMoneyTracker.recent_signals
    signals,              \* check_new_trades' local list, then new_signals of the loop
    todo,                 \* wallets the for-loop of check_new_trades has still to visit
    addr,                 \* check_new_trades' loop variable: the wallet last visited
    trades,               \* check_new_trades' local: the response fetched for addr
    outbox,               \* signals of new_signals not yet passed to send_telegram
    sent,                 \* signals passed to send_telegram in the current tick
    results,              \* what send_telegram returned for each of them
    polled_ts,            \* history: the cursor each address held at its latest poll
    alerted,              \* history: the trades whose Signals a trade poll has returned
    last_refresh,         \* history: what the latest refresh_wallets call of the tick met
    calc,                 \* a call of a pure function: its arguments and its result
    workers               \* the gunicorn workers: where the bot thread of each is

vars == <<env, pc, clock, ticks, fetched_total, credentials, last_scanner_run,
          last_tracker_refresh, tracked_wallets, recent_signals, signals, todo,
          addr, trades, outbox, sent, results, polled_ts, alerted, last_refresh, calc,
          workers>>

----------------------------------------------------------------------------
(* Bounds of the model *)

StartTime == 100000       \* wall clock when the process starts
MaxTicks == 2              \* sleeps of the scheduler loop explored (MaxTicks + 1 ticks)
MaxTrades == 3            \* trades the activity feed returns over a run
MaxBatch == 2             \* trades in one activity response
MaxPositions == 20        \* closed positions in one closed-positions response
MaxEntries == 3           \* leaderboard entries that carry one address
MaxRetries == 3           \* largest retries argument of api_get (3 is the default)
MaxWorkers == 2           \* worker processes gunicorn forks

----------------------------------------------------------------------------
(* Configuration: SMART_MONEY and MARKET_SCANNER of src/bot.py *)

scan_interval_hours == 6
leaderboard_refresh_hours == 6
trade_poll_seconds == 60
activity_lookback_seconds == 300
min_pnl_all_time == 5000
min_volume_all_time == 50000
min_profitable_windows == 2
min_closed_positions == 8
min_win_rate == 54                \* 0.54, in hundredths
min_roi_percent == 8
min_trade_size_usd == 200
min_market_liquidity == 8000
max_probability == 92             \* 0.92, in hundredths
min_probability == 5              \* 0.05, in hundredths
longshot_min_trade_usd == 1000
convergence_window_minutes == 60

Max(a, b) == IF a >= b THEN a ELSE b

Abs(x) == IF x < 0 THEN -x ELSE x

Range(s) == {s[i] : i \in 1..Len(s)}

----------------------------------------------------------------------------
(* RiskManager.calculate_bet, in src/bot.py and in src/risk_manager.py.     *)
(* market_price and the Kelly fraction are in hundredths, user_prob is the  *)
(* percentage the caller passes, the bankroll is in cents.  The results     *)
(* are in the units round(x, 2) leaves: suggested_usd in cents, percentage  *)
(* and edge in hundredths of a percent.  The arithmetic is exact where the  *)
(* source computes in binary floating point.                                *)

\* round(n/d, 0) for d > 0: the nearest integer, a tie going to the even one
RoundHalfEven(n, d) ==
    LET q == n \div d
        r == n - q * d
    IN  IF 2 * r < d THEN q
        ELSE IF 2 * r > d THEN q + 1
        ELSE IF q % 2 = 0 THEN q ELSE q + 1

\* optimal_f = max(0, raw_f * self.fraction) as the fraction num/den.  With
\* m = market_price/100 and p = user_prob/100, b = (1 - m)/m and q = 1 - p, so
\* b*p - q = (p - m)/m and raw_f = (b*p - q)/b = (p - m)/(1 - m) = n/d below.
OptimalF(fraction, market_price, user_prob) ==
    LET n == user_prob - market_price
        d == 100 - market_price
    IN  IF n * fraction > 0 THEN [num |-> n * fraction, den |-> d * 100]
        ELSE [num |-> 0, den |-> 1]

\* Faulty variant of SafeF: the cap of line 124 left out
SafeFUncapped(f) == f

\* safe_f = min(optimal_f, 0.10)
SafeF(f) == IF f.num * 10 > f.den THEN [num |-> 1, den |-> 10] ELSE f

\* The result for a price inside (0, 1): the same lines in both files
KellyResult(bankroll, fraction, market_price, user_prob) ==
    LET safe_f == SafeF(OptimalF(fraction, market_price, user_prob))
    IN  [suggested_usd |-> RoundHalfEven(bankroll * safe_f.num, safe_f.den),
         percentage |-> RoundHalfEven(10000 * safe_f.num, safe_f.den),
         edge |-> (user_prob - market_price) * 100]

\* src/bot.py
calculate_bet(bankroll, fraction, market_price, user_prob) ==
    IF market_price <= 0 \/ market_price >= 100
    THEN [suggested_usd |-> 0, percentage |-> 0, edge |-> 0]
    ELSE KellyResult(bankroll, fraction, market_price, user_prob)

\* src/risk_manager.py
risk_manager_calculate_bet(bankroll, fraction, market_price, user_prob) ==
    IF market_price <= 0 \/ market_price >= 100
    THEN [amount |-> 0, status |-> "Invalid Price"]
    ELSE KellyResult(bankroll, fraction, market_price, user_prob)

----------------------------------------------------------------------------
(* Wallets.  tracked_wallets is a Python dict: it is iterated in insertion  *)
(* order, which is the order of first appearance on the leaderboard; the    *)
(* model lists the addresses in one fixed leaderboard order.                *)

Wallets == {"w1", "w2", "w3"}

WalletOrder == <<"w1", "w2", "w3">>

InOrder(S) == SelectSeq(WalletOrder, LAMBDA a : a \in S)

----------------------------------------------------------------------------
(* The leaderboard and closed-positions endpoints.  What they return is an  *)
(* input: a wallet's listing is the sequence of leaderboard entries that    *)
(* carry its address (over all categories and periods, in fetch order) and  *)
(* its closed positions are a sequence of {realizedPnl, totalBought,        *)
(* avgPrice}.  pnl, vol and realizedPnl are dollars, avgPrice hundredths.   *)

Entry(period, pnl, vol) == [period |-> period, pnl |-> pnl, vol |-> vol]

Position(realizedPnl, totalBought, avgPrice) ==
    [realizedPnl |-> realizedPnl, totalBought |-> totalBought, avgPrice |-> avgPrice]

Listing(profile) ==
    CASE profile = "elite" ->
           <<Entry("ALL", 10000, 100000), Entry("MONTH", 500, 4000),
             Entry("ALL", 12000, 90000), Entry("WEEK", 100, 900)>>
      [] profile = "watch" ->
           <<Entry("DAY", 50, 300), Entry("ALL", 6000, 60000), Entry("DAY", -20, 500)>>
      [] profile = "poor" ->
           <<Entry("ALL", 1000, 80000), Entry("MONTH", 900, 70000)>>
      [] profile = "unproven" ->
           <<Entry("ALL", 9000, 70000), Entry("WEEK", 10, 100)>>
      [] profile = "fluke" ->
           <<Entry("ALL", 8000, 60000), Entry("MONTH", -100, 2000)>>
      [] OTHER -> << >>

ClosedPositions(profile) ==
    CASE profile = "elite" ->
           [i \in 1..10 |-> IF i <= 7 THEN Position(1000, 2000, 50)
                                      ELSE Position(-300, 2000, 50)]
      [] profile = "watch" ->
           [i \in 1..11 |-> IF i <= 6 THEN Position(300, 2000, 50)
                            ELSE IF i <= 10 THEN Position(-200, 2000, 50)
                            ELSE Position(5, 1, 50)]
      [] profile = "poor" ->
           [i \in 1..3 |-> Position(10, 100, 50)]
      [] profile = "unproven" ->
           [i \in 1..9 |-> IF i <= 4 THEN Position(100, 2000, 50)
                                     ELSE Position(-100, 2000, 50)]
      [] profile = "fluke" ->
           [i \in 1..10 |-> IF i <= 8 THEN Position(1000, 2000, 50)
                                      ELSE Position(-300, 2000, 50)]
      [] OTHER -> << >>

Profiles == {"absent", "elite", "watch", "poor", "unproven", "fluke"}

\* SmartWallet(address=wallet, username=username): the dataclass defaults
NewCandidate ==
    [pnl_all |-> 0, vol_all |-> 0, pnl_month |-> 0, pnl_week |-> 0, pnl_day |-> 0,
     profitable_windows |-> 0, win_rate |-> 0, roi_percent |-> 0,
     closed_positions_count |-> 0, tier |-> "B", last_seen_trade_ts |-> 0]

\* Faulty variant of MergeEntry: the figures of the listings are added up
MergeEntrySums(sw, e) ==
    CASE e.period = "ALL" ->
           [sw EXCEPT !.pnl_all = sw.pnl_all + e.pnl, !.vol_all = sw.vol_all + e.vol]
      [] e.period = "MONTH" -> [sw EXCEPT !.pnl_month = sw.pnl_month + e.pnl]
      [] e.period = "WEEK" -> [sw EXCEPT !.pnl_week = sw.pnl_week + e.pnl]
      [] e.period = "DAY" -> [sw EXCEPT !.pnl_day = sw.pnl_day + e.pnl]
      [] OTHER -> sw

\* scan_leaderboard, the merge of one entry into the candidate record
MergeEntry(sw, e) ==
    CASE e.period = "ALL" ->
           [sw EXCEPT !.pnl_all = Max(sw.pnl_all, e.pnl), !.vol_all = Max(sw.vol_all, e.vol)]
      [] e.period = "MONTH" -> [sw EXCEPT !.pnl_month = Max(sw.pnl_month, e.pnl)]
      [] e.period = "WEEK" -> [sw EXCEPT !.pnl_week = Max(sw.pnl_week, e.pnl)]
      [] e.period = "DAY" -> [sw EXCEPT !.pnl_day = Max(sw.pnl_day, e.pnl)]
      [] OTHER -> sw

RECURSIVE MergeEntries(_, _)
MergeEntries(sw, entries) ==
    IF entries = << >> THEN sw
    ELSE MergeEntries(MergeEntry(sw, Head(entries)), Tail(entries))

Bit(b) == IF b THEN 1 ELSE 0

\* Faulty variant of scan_leaderboard: Layer 2 left out, every wallet of Layer 1
\* is a candidate
scan_leaderboard_skips_layer2(board) ==
    LET listed == {a \in DOMAIN board : board[a] # << >>}
        merged == [a \in listed |-> MergeEntries(NewCandidate, board[a])]
        layer1 == {a \in listed : /\ merged[a].pnl_all >= min_pnl_all_time
                                  /\ merged[a].vol_all >= min_volume_all_time}
    IN  [a \in layer1 |->
           [merged[a] EXCEPT !.profitable_windows =
               Bit(merged[a].pnl_day > 0) + Bit(merged[a].pnl_week > 0)
               + Bit(merged[a].pnl_month > 0) + Bit(merged[a].pnl_all > 0)]]

\* scan_leaderboard: Layer 1 (hard filters) and Layer 2 (consistency);
\* board maps every address to its listing
scan_leaderboard(board) ==
    LET listed == {a \in DOMAIN board : board[a] # << >>}
        merged == [a \in listed |-> MergeEntries(NewCandidate, board[a])]
        layer1 == {a \in listed : /\ merged[a].pnl_all >= min_pnl_all_time
                                  /\ merged[a].vol_all >= min_volume_all_time}
        counted == [a \in layer1 |->
                      [merged[a] EXCEPT !.profitable_windows =
                          Bit(merged[a].pnl_day > 0) + Bit(merged[a].pnl_week > 0)
                          + Bit(merged[a].pnl_month > 0) + Bit(merged[a].pnl_all > 0)]]
        layer2 == {a \in layer1 : counted[a].profitable_windows >= min_profitable_windows}
    IN  [a \in layer2 |-> counted[a]]

\* validate_track_records, the loop over one wallet's closed positions:
\* initial is in cents (totalBought * avgPrice in hundredths)
RECURSIVE TrackRecord(_, _)
TrackRecord(closed, acc) ==
    IF closed = << >> THEN acc
    ELSE LET pos == Head(closed)
             initial == pos.totalBought * pos.avgPrice
         IN  IF Abs(initial) < 100
             THEN TrackRecord(Tail(closed), acc)
             ELSE TrackRecord(Tail(closed),
                    [wins |-> acc.wins + Bit(pos.realizedPnl > 0),
                     total |-> acc.total + 1,
                     total_pnl |-> acc.total_pnl + pos.realizedPnl,
                     total_initial |-> acc.total_initial + Abs(initial)])

\* wr >= x/100 and roi >= y, for wr = wins/total and
\* roi = total_pnl / total_initial * 100 (total_initial in cents)
WinRateAtLeast(r, x) == IF r.total > 0 THEN r.wins * 100 >= x * r.total ELSE 0 >= x

RoiAtLeast(r, y) ==
    IF r.total_initial > 0 THEN r.total_pnl * 10000 >= y * r.total_initial ELSE 0 >= y

\* sw.win_rate = round(wr, 3), in thousandths
WinRate(r) == IF r.total > 0 THEN RoundHalfEven(r.wins * 1000, r.total) ELSE 0

\* sw.roi_percent = round(roi, 1), in tenths of a percent: the whole percents
\* and the rounded tenths of the remainder.  No record that passes Layer 3 on
\* the inputs used here is a tie of round().
RoiPercent(r) ==
    IF r.total_initial > 0
    THEN LET q == (r.total_pnl * 10000) \div r.total_initial
             rest == r.total_pnl * 10000 - q * r.total_initial
         IN  q * 10 + RoundHalfEven(rest * 10, r.total_initial)
    ELSE 0

\* Faulty variant of TierOf: the test for "B" comes before the test for "A"
TierOfMidFirst(r) ==
    IF WinRateAtLeast(r, 58) /\ RoiAtLeast(r, 25) THEN "B"
    ELSE IF WinRateAtLeast(r, 65) /\ RoiAtLeast(r, 50) THEN "A"
    ELSE "C"

\* lines 478-483
TierOf(r) ==
    IF WinRateAtLeast(r, 65) /\ RoiAtLeast(r, 50) THEN "A"
    ELSE IF WinRateAtLeast(r, 58) /\ RoiAtLeast(r, 25) THEN "B"
    ELSE "C"

\* validate_track_records: Layer 3; positions maps an address to its closed positions
validate_track_records(candidates, positions) ==
    LET rec(a) == TrackRecord(positions[a],
                     [wins |-> 0, total |-> 0, total_pnl |-> 0, total_initial |-> 0])
        ok == {a \in DOMAIN candidates :
                 /\ Len(positions[a]) >= min_closed_positions
                 /\ rec(a).total >= min_closed_positions
                 /\ WinRateAtLeast(rec(a), min_win_rate)
                 /\ RoiAtLeast(rec(a), min_roi_percent)}
    IN  [a \in ok |-> [candidates[a] EXCEPT !.win_rate = WinRate(rec(a)),
                                            !.roi_percent = RoiPercent(rec(a)),
                                            !.closed_positions_count = rec(a).total,
                                            !.tier = TierOf(rec(a))]]

\* Faulty variant of refresh_wallets: the cursors of re-qualifying wallets are not
\* carried over (lines 676-678 left out)
refresh_wallets_forgets_cursor(tracked, board, positions) ==
    LET candidates == scan_leaderboard(board)
        validated == validate_track_records(candidates, positions)
    IN  IF DOMAIN candidates = {} THEN tracked
        ELSE IF DOMAIN validated # {} THEN validated
        ELSE tracked

\* Faulty variant of refresh_wallets: "if validated" left out, the map returned
\* by validate_track_records is assigned even when it is empty
refresh_wallets_assigns_empty(tracked, board, positions) ==
    LET candidates == scan_leaderboard(board)
        validated == validate_track_records(candidates, positions)
    IN  IF DOMAIN candidates = {} THEN tracked
        ELSE [a \in DOMAIN validated |->
                IF a \in DOMAIN tracked
                THEN [validated[a] EXCEPT
                        !.last_seen_trade_ts = tracked[a].last_seen_trade_ts]
                ELSE validated[a]]

\* Faulty variant of refresh_wallets: when no wallet passed Layer 3 the previous
\* wallets are kept but their cursors start again at 0
refresh_wallets_resets_cursors(tracked, board, positions) ==
    LET candidates == scan_leaderboard(board)
        validated == validate_track_records(candidates, positions)
    IN  IF DOMAIN candidates = {} THEN tracked
        ELSE IF DOMAIN validated # {}
        THEN [a \in DOMAIN validated |->
                IF a \in DOMAIN tracked
                THEN [validated[a] EXCEPT
                        !.last_seen_trade_ts = tracked[a].last_seen_trade_ts]
                ELSE validated[a]]
        ELSE [a \in DOMAIN tracked |-> [tracked[a] EXCEPT !.last_seen_trade_ts = 0]]

\* Faulty variant of refresh_wallets: the validated wallets are added to the
\* tracked map (dict.update) where line 679 replaces it
refresh_wallets_updates(tracked, board, positions) ==
    LET candidates == scan_leaderboard(board)
        validated == validate_track_records(candidates, positions)
    IN  IF DOMAIN candidates = {} THEN tracked
        ELSE IF DOMAIN validated # {}
        THEN [a \in DOMAIN validated \cup DOMAIN tracked |->
                IF a \in DOMAIN tracked THEN tracked[a] ELSE validated[a]]
        ELSE tracked

\* Faulty variant of refresh_wallets: a re-qualifying wallet keeps its whole
\* previous record, tier and figures included
refresh_wallets_keeps_records(tracked, board, positions) ==
    LET candidates == scan_leaderboard(board)
        validated == validate_track_records(candidates, positions)
    IN  IF DOMAIN candidates = {} THEN tracked
        ELSE IF DOMAIN validated # {}
        THEN [a \in DOMAIN validated |->
                IF a \in DOMAIN tracked THEN tracked[a] ELSE validated[a]]
        ELSE tracked

\* refresh_wallets: the tracked map it leaves, given the endpoint's answers
refresh_wallets(tracked, board, positions) ==
    LET candidates == scan_leaderboard(board)
        validated == validate_track_records(candidates, positions)
    IN  IF DOMAIN candidates = {} THEN tracked
        ELSE IF DOMAIN validated # {}
        THEN [a \in DOMAIN validated |->
                IF a \in DOMAIN tracked
                THEN [validated[a] EXCEPT
                        !.last_seen_trade_ts = tracked[a].last_seen_trade_ts]
                ELSE validated[a]]
        ELSE tracked

----------------------------------------------------------------------------
(* The market-detail endpoint (Gamma API).  outcome_prices is the parsed    *)
(* price vector in hundredths, << >> for "[]".                              *)

GammaMarkets ==
    [M1 |-> [slug |-> "m1", liquidity |-> 10000, active |-> TRUE, closed |-> FALSE,
             outcome_prices |-> <<60, 40>>],
     M2 |-> [slug |-> "m2", liquidity |-> 9000, active |-> TRUE, closed |-> FALSE,
             outcome_prices |-> <<3, 97>>],
     M3 |-> [slug |-> "m3", liquidity |-> 500, active |-> TRUE, closed |-> FALSE,
             outcome_prices |-> <<50, 50>>],
     M4 |-> [slug |-> "m4", liquidity |-> 20000, active |-> TRUE, closed |-> TRUE,
             outcome_prices |-> <<60, 40>>]]

get_market_details(condition_id) ==
    IF condition_id \in DOMAIN GammaMarkets
    THEN GammaMarkets[condition_id]
    ELSE [slug |-> "", liquidity |-> 0, active |-> FALSE, closed |-> TRUE,
          outcome_prices |-> << >>]

----------------------------------------------------------------------------
(* The activity endpoint.  A trade of the response carries timestamp, size  *)
(* (shares), price (hundredths), conditionId, outcome and outcomeIndex;     *)
(* outcomeIndex is <<i>> for the number i and << >> for a JSON null.        *)

TradeShape(kind) ==
    CASE kind = "buy" ->
           [size |-> 1000, price |-> 50, conditionId |-> "M1", outcome |-> "Yes",
            outcomeIndex |-> <<0>>]
      [] kind = "no" ->
           [size |-> 1000, price |-> 50, conditionId |-> "M1", outcome |-> "No",
            outcomeIndex |-> <<1>>]
      [] kind = "small" ->
           [size |-> 100, price |-> 50, conditionId |-> "M1", outcome |-> "Yes",
            outcomeIndex |-> <<0>>]
      [] kind = "null" ->
           [size |-> 1000, price |-> 50, conditionId |-> "M1", outcome |-> "Yes",
            outcomeIndex |-> << >>]
      [] kind = "gone" ->
           [size |-> 1000, price |-> 50, conditionId |-> "M9", outcome |-> "Yes",
            outcomeIndex |-> <<0>>]
      [] kind = "thin" ->
           [size |-> 1000, price |-> 50, conditionId |-> "M3", outcome |-> "Yes",
            outcomeIndex |-> <<0>>]
      [] kind = "sure" ->
           [size |-> 1000, price |-> 95, conditionId |-> "M2", outcome |-> "No",
            outcomeIndex |-> <<1>>]
      [] kind = "longshot" ->
           [size |-> 10000, price |-> 3, conditionId |-> "M2", outcome |-> "Yes",
            outcomeIndex |-> <<0>>]
      [] kind = "whale" ->
           [size |-> 50000, price |-> 3, conditionId |-> "M2", outcome |-> "Yes",
            outcomeIndex |-> <<0>>]
      [] kind = "settled" ->
           [size |-> 1000, price |-> 50, conditionId |-> "M4", outcome |-> "Yes",
            outcomeIndex |-> <<0>>]
      [] kind = "anon" ->
           [size |-> 1000, price |-> 50, conditionId |-> "", outcome |-> "Yes",
            outcomeIndex |-> <<0>>]
      [] OTHER ->
           [size |-> 0, price |-> 0, conditionId |-> "", outcome |-> "Unknown",
            outcomeIndex |-> <<0>>]

Trade(kind, ts) ==
    [kind |-> kind, timestamp |-> ts] @@ TradeShape(kind)

\* 4C: the implied probability (hundredths); the except clause catches
\* IndexError, so an index outside the vector falls back to the trade's price
Probability(trade, market) ==
    LET prices == market.outcome_prices
        idx == trade.outcomeIndex[1]
    IN  IF prices = << >> THEN trade.price
        ELSE IF idx + 1 \in 1..Len(prices) THEN prices[idx + 1]
        ELSE trade.price

\* The fallback record of check_new_trades for a trade without conditionId
NoConditionMarket(trade) ==
    [slug |-> "", liquidity |-> 0, active |-> TRUE, closed |-> FALSE,
     outcome_prices |-> << >>]

\* Faulty variant of Signal: wallet_tier is the default tier of SmartWallet
SignalDefaultTier(wallet, sw, trade, market, est_usd, prob, oid) ==
    [oid |-> oid, wallet_address |-> wallet, wallet_tier |-> "B",
     market_slug |-> market.slug, outcome |-> trade.outcome,
     price |-> trade.price, estimated_usd |-> est_usd,
     market_probability |-> prob, market_liquidity |-> market.liquidity,
     timestamp |-> trade.timestamp, trade |-> trade.kind, convergence_count |-> 1]

\* dataclass Signal; oid stands for the identity of the Python object
Signal(wallet, sw, trade, market, est_usd, prob, oid) ==
    [oid |-> oid, wallet_address |-> wallet, wallet_tier |-> sw.tier,
     market_slug |-> market.slug, outcome |-> trade.outcome,
     price |-> trade.price, estimated_usd |-> est_usd,
     market_probability |-> prob, market_liquidity |-> market.liquidity,
     timestamp |-> trade.timestamp, trade |-> trade.kind, convergence_count |-> 1]

\* Faulty variant of AtOrBeforeCursor: the cursor test left out
CursorIgnored(ts, cursor) == FALSE

\* Faulty variant of AtOrBeforeCursor: "ts < cursor" for "ts <= cursor"
StrictlyBeforeCursor(ts, cursor) == ts < cursor

\* The cursor test of check_new_trades (line 510): the trade is skipped
AtOrBeforeCursor(ts, cursor) == ts <= cursor

\* Faulty variant of ProcessTrade: the test of line 538 (closed or not active)
\* left out
ProcessTradeAnyMarket(wallet, sw, trade, oid) ==
    LET est_usd == trade.size * trade.price
        market == IF trade.conditionId # "" THEN get_market_details(trade.conditionId)
                  ELSE NoConditionMarket(trade)
        prob == Probability(trade, market)
    IN  IF AtOrBeforeCursor(trade.timestamp, sw.last_seen_trade_ts) THEN [kind |-> "skip"]
        ELSE IF trade.price <= 0 THEN [kind |-> "skip"]
        ELSE IF est_usd < min_trade_size_usd * 100 THEN [kind |-> "skip"]
        ELSE IF market.liquidity < min_market_liquidity THEN [kind |-> "skip"]
        ELSE IF trade.outcomeIndex = << >> THEN [kind |-> "raise"]
        ELSE IF prob > max_probability THEN [kind |-> "skip"]
        ELSE IF prob < min_probability /\ est_usd < longshot_min_trade_usd * 100
             THEN [kind |-> "skip"]
        ELSE [kind |-> "signal",
              sig |-> Signal(wallet, sw, trade, market, est_usd, prob, oid)]

\* One iteration of "for trade in trades": "skip" (a continue), "raise" (an
\* exception leaves check_new_trades) or "signal".  est_usd is in cents.
ProcessTrade(wallet, sw, trade, oid) ==
    LET est_usd == trade.size * trade.price
        market == IF trade.conditionId # "" THEN get_market_details(trade.conditionId)
                  ELSE NoConditionMarket(trade)
        prob == Probability(trade, market)
    IN  IF AtOrBeforeCursor(trade.timestamp, sw.last_seen_trade_ts) THEN [kind |-> "skip"]
        ELSE IF trade.price <= 0 THEN [kind |-> "skip"]
        ELSE IF est_usd < min_trade_size_usd * 100 THEN [kind |-> "skip"]
        ELSE IF market.closed \/ ~market.active THEN [kind |-> "skip"]
        ELSE IF market.liquidity < min_market_liquidity THEN [kind |-> "skip"]
        ELSE IF trade.outcomeIndex = << >> THEN [kind |-> "raise"]
        ELSE IF prob > max_probability THEN [kind |-> "skip"]
        ELSE IF prob < min_probability /\ est_usd < longshot_min_trade_usd * 100
             THEN [kind |-> "skip"]
        ELSE [kind |-> "signal",
              sig |-> Signal(wallet, sw, trade, market, est_usd, prob, oid)]

\* "for trade in trades" over a whole response: the signals appended to sigs,
\* and whether an exception ended the loop
RECURSIVE ProcessBatch(_, _, _, _, _)
ProcessBatch(wallet, sw, batch, sigs, tick) ==
    IF batch = << >> THEN [signals |-> sigs, raised |-> FALSE]
    ELSE LET r == ProcessTrade(wallet, sw, Head(batch), <<tick, Len(sigs) + 1>>)
         IN  CASE r.kind = "raise" -> [signals |-> sigs, raised |-> TRUE]
               [] r.kind = "signal" ->
                    ProcessBatch(wallet, sw, Tail(batch), Append(sigs, r.sig), tick)
               [] OTHER -> ProcessBatch(wallet, sw, Tail(batch), sigs, tick)

\* Faulty variant of MaxTimestamp: the timestamp of the last trade of the response
LastTimestamp(batch) == batch[Len(batch)].timestamp

RECURSIVE MaxTimestamp(_)
MaxTimestamp(batch) ==
    IF Len(batch) = 1 THEN batch[1].timestamp
    ELSE Max(batch[1].timestamp, MaxTimestamp(Tail(batch)))

\* Faulty variant of UpdateLastSeen: the cursor is overwritten with the response's
\* maximum ("max(sw.last_seen_trade_ts, ...)" left out)
UpdateLastSeenOverwrites(sw, batch) ==
    IF batch # << >>
    THEN [sw EXCEPT !.last_seen_trade_ts = MaxTimestamp(batch)]
    ELSE sw

\* "Update last seen" (lines 576-578)
UpdateLastSeen(sw, batch) ==
    IF batch # << >>
    THEN [sw EXCEPT !.last_seen_trade_ts = Max(sw.last_seen_trade_ts, MaxTimestamp(batch))]
    ELSE sw

\* Faulty variant of AfterPass: the cursor is written although the loop over
\* the response was left by an exception
AfterPassAlwaysWrites(sw, batch, raised) == UpdateLastSeen(sw, batch)

\* The wallet record after "for trade in trades": lines 576-578 are reached
\* only when no exception left the loop
AfterPass(sw, batch, raised) == IF raised THEN sw ELSE UpdateLastSeen(sw, batch)

----------------------------------------------------------------------------
(* check_convergence *)

Window == convergence_window_minutes * 60

\* Faulty variant of Prune: a signal exactly as old as the window is kept
PruneOlderOnly(retained, now) ==
    SelectSeq(retained, LAMBDA s : (now - s.timestamp) <= Window)

\* line 587: the retained signals that survive the pruning at time now
Prune(retained, now) == SelectSeq(retained, LAMBDA s : (now - s.timestamp) < Window)

\* lines 591-597: is s a signal that matches sig
Matching(s, sig) ==
    /\ s.market_slug = sig.market_slug
    /\ s.outcome = sig.outcome
    /\ s.wallet_address # sig.wallet_address
    /\ Abs(s.timestamp - sig.timestamp) < Window

\* Faulty variant of ConvergenceCount: "1 +" left out
ConvergenceCountOthersOnly(sig, retained) ==
    Cardinality({retained[i].wallet_address :
                    i \in {j \in 1..Len(retained) : Matching(retained[j], sig)}})

\* Faulty variant of ConvergenceCount: len(matching) for len(set(... addresses ...))
ConvergenceCountPerSignal(sig, retained) ==
    1 + Cardinality({j \in 1..Len(retained) : Matching(retained[j], sig)})

\* line 598
ConvergenceCount(sig, retained) ==
    1 + Cardinality({retained[i].wallet_address :
                        i \in {j \in 1..Len(retained) : Matching(retained[j], sig)}})

\* Faulty variant of check_convergence: the counts are computed before line 588
\* extends recent_signals with the new batch
check_convergence_before_extend(retained, new_signals, now) ==
    LET old == Prune(retained, now)
    IN  old \o [i \in 1..Len(new_signals) |->
                  [new_signals[i] EXCEPT
                     !.convergence_count = ConvergenceCount(new_signals[i], old)]]

\* Faulty variant of check_convergence: the loop of line 590 runs over recent_signals
check_convergence_annotates_all(retained, new_signals, now) ==
    LET kept == Prune(retained, now) \o new_signals
    IN  [i \in 1..Len(kept) |->
           [kept[i] EXCEPT !.convergence_count = ConvergenceCount(kept[i], kept)]]

\* check_convergence: recent_signals after the call.  The Signal objects of
\* new_signals are the very objects appended to recent_signals, so the count
\* written in the loop shows in both; the matching reads only fields the loop
\* does not write.
check_convergence(retained, new_signals, now) ==
    LET kept == Prune(retained, now) \o new_signals
        n == Len(kept) - Len(new_signals)
    IN  [i \in 1..Len(kept) |->
           IF i > n THEN [kept[i] EXCEPT !.convergence_count = ConvergenceCount(kept[i], kept)]
           ELSE kept[i]]

----------------------------------------------------------------------------
(* The environment of a run: which addresses the leaderboard can list and   *)
(* with which track record, which trades the activity feed can return and   *)
(* how old they are when fetched, how long a tick can take, and which       *)
(* engines can raise.  Every run is checked in each of these universes.     *)

RefreshInterval == leaderboard_refresh_hours * 3600

ScanInterval == scan_interval_hours * 3600

Environments ==
    { [name |-> "monitor", wallets |-> {"w1"}, profiles |-> {"elite", "watch"},
       kinds |-> {"buy", "small"}, ages |-> {0, 10, 50, 70},
       delays |-> {trade_poll_seconds}, faults |-> {"telegram"}],
      [name |-> "churn", wallets |-> {"w1", "w2"},
       profiles |-> {"absent", "elite", "poor", "unproven", "fluke"},
       kinds |-> {"buy", "null"}, ages |-> {0},
       delays |-> {RefreshInterval}, faults |-> {"scanner", "refresh"}],
      [name |-> "crowd", wallets |-> {"w1", "w2", "w3"}, profiles |-> {"elite"},
       kinds |-> {"buy", "no"}, ages |-> {0},
       delays |-> {trade_poll_seconds}, faults |-> {}],
      [name |-> "window", wallets |-> {"w1", "w2"}, profiles |-> {"elite"},
       kinds |-> {"buy"}, ages |-> {0, 10},
       delays |-> {trade_poll_seconds, Window}, faults |-> {}],
      [name |-> "regrade", wallets |-> {"w1"}, profiles |-> {"elite", "watch"},
       kinds |-> {"buy"}, ages |-> {0},
       delays |-> {RefreshInterval}, faults |-> {}],
      [name |-> "filters", wallets |-> {"w1"}, profiles |-> {"elite"},
       kinds |-> {"buy", "gone", "thin", "sure", "longshot", "whale", "settled",
                  "anon"},
       ages |-> {0}, delays |-> {trade_poll_seconds}, faults |-> {}],
      [name |-> "retry", wallets |-> {"w1"}, profiles |-> {"absent", "elite", "unproven"},
       kinds |-> {"buy"}, ages |-> {0},
       delays |-> {trade_poll_seconds, RefreshInterval}, faults |-> {"refresh"}] }

\* The leaderboards the endpoint can answer with: a profile for each address
Boards == [env.wallets -> env.profiles]

\* The responses the activity endpoint can give at time now for start = lookback:
\* at most MaxBatch trades (and no more than the run has left), none older
\* than lookback, sorted by TIMESTAMP DESC
Responses(now, lookback) ==
    LET U == {t \in {Trade(k, now - g) : k \in env.kinds, g \in env.ages} :
                t.timestamp >= lookback}
        most == IF MaxTrades - fetched_total < MaxBatch
                THEN MaxTrades - fetched_total ELSE MaxBatch
        all == UNION {[1..n -> U] : n \in 0..most}
    IN  {b \in all : \A i \in 1..(Len(b) - 1) : b[i].timestamp >= b[i + 1].timestamp}

----------------------------------------------------------------------------
(* bot_main_loop.  The thread reads the clock at the head of a tick; the   *)
(* time a tick's own calls take is part of the delay chosen at Sleep, so    *)
(* the reads of one tick see one value.  The handler of lines 787-789 is    *)
(* not a step: each engine call sits in its own try/except Exception.       *)

\* What a refresh_wallets call met: the addresses scan_leaderboard returned, those
\* validate_track_records returned and the records it built for them, or an
\* exception
NoRefresh ==
    [called |-> FALSE, raised |-> FALSE, candidates |-> {}, survivors |-> {},
     validated |-> << >>]

\* No call of a pure function
NoCall == [op |-> "none"]

\* No worker forked yet.  tracker is << >> before line 734 and <<object>> after.
NoWorkers == [w \in 1..MaxWorkers |-> [pc |-> "unforked", tick |-> 0, tracker |-> << >>]]

Init ==
    /\ env \in Environments
    /\ pc = "start"
    /\ clock = StartTime
    /\ ticks = 0
    /\ fetched_total = 0
    /\ credentials \in [token : BOOLEAN, chat_id : BOOLEAN]
    /\ last_scanner_run = 0
    /\ last_tracker_refresh = 0
    /\ tracked_wallets = [a \in {} |-> NewCandidate]
    /\ recent_signals = << >>
    /\ signals = << >>
    /\ todo = << >>
    /\ addr = ""
    /\ trades = << >>
    /\ outbox = << >>
    /\ sent = << >>
    /\ results = << >>
    /\ polled_ts = [a \in Wallets |-> 0]
    /\ alerted = {}
    /\ last_refresh = NoRefresh
    /\ calc = NoCall
    /\ workers = NoWorkers

\* Faulty variant of CredentialsMissing: "and" for "or"
BothCredentialsMissing(c) == ~c.token /\ ~c.chat_id

\* line 720: not TELEGRAM_BOT_TOKEN or not TELEGRAM_CHAT_ID
CredentialsMissing(c) == ~c.token \/ ~c.chat_id

\* lines 719-734: the credential check; without credentials the function returns
Startup ==
    /\ pc = "start"
    /\ pc' = IF CredentialsMissing(credentials) THEN "returned" ELSE "initial_scan"
    /\ UNCHANGED <<env, calc, last_refresh, clock, ticks, fetched_total, credentials,
                   last_scanner_run, last_tracker_refresh, tracked_wallets,
                   recent_signals, signals, todo, addr, trades, outbox, sent, results,
                   polled_ts, alerted, workers>>

\* tracker.refresh_wallets() returning normally, on some answer of the endpoints
RefreshReturns ==
    \E board \in Boards :
        LET listings == [a \in DOMAIN board |-> Listing(board[a])]
            positions == [a \in DOMAIN board |-> ClosedPositions(board[a])]
            candidates == scan_leaderboard(listings)
            validated == validate_track_records(candidates, positions)
        IN  /\ tracked_wallets' = refresh_wallets(tracked_wallets, listings, positions)
            /\ last_refresh' =
                  [called |-> TRUE, raised |-> FALSE, candidates |-> DOMAIN candidates,
                   survivors |-> DOMAIN validated, validated |-> validated]

\* Faulty variant of RefreshRaises: the timer is set although the call raised
RefreshRaisesTimerSet ==
    /\ "refresh" \in env.faults
    /\ last_refresh' = [NoRefresh EXCEPT !.called = TRUE, !.raised = TRUE]
    /\ last_tracker_refresh' = clock
    /\ UNCHANGED tracked_wallets

\* tracker.refresh_wallets() raising: the exception leaves before line 679
RefreshRaises ==
    /\ "refresh" \in env.faults
    /\ last_refresh' = [NoRefresh EXCEPT !.called = TRUE, !.raised = TRUE]
    /\ UNCHANGED <<tracked_wallets, last_tracker_refresh>>

\* lines 740-746: the first leaderboard scan
InitialScan ==
    /\ pc = "initial_scan"
    /\ \/ RefreshReturns /\ last_tracker_refresh' = clock
       \/ RefreshRaises
    /\ pc' = "scanner"
    /\ UNCHANGED <<env, calc, clock, ticks, fetched_total, credentials,
                   last_scanner_run, recent_signals, signals, todo, addr, trades,
                   outbox, sent, results, polled_ts, alerted, workers>>

\* Faulty variant of RunScanner: without the try/except of lines 754-758 an
\* exception of run_cycle reaches the handler of line 787, which sleeps and
\* starts the next iteration
RunScannerUnguarded ==
    /\ pc = "scanner"
    /\ IF (clock - last_scanner_run) >= ScanInterval
       THEN \/ last_scanner_run' = clock /\ pc' = "refresh"
            \/ "scanner" \in env.faults /\ UNCHANGED last_scanner_run /\ pc' = "sleep"
       ELSE UNCHANGED last_scanner_run /\ pc' = "refresh"
    /\ UNCHANGED <<env, calc, last_refresh, clock, ticks, fetched_total, credentials,
                   last_tracker_refresh, tracked_wallets, recent_signals, signals, todo,
                   addr, trades, outbox, sent, results, polled_ts, alerted, workers>>

\* lines 750-758: Engine 1, when due; run_cycle returns or raises
RunScanner ==
    /\ pc = "scanner"
    /\ IF (clock - last_scanner_run) >= ScanInterval
       THEN \/ last_scanner_run' = clock
            \/ "scanner" \in env.faults /\ UNCHANGED last_scanner_run
       ELSE UNCHANGED last_scanner_run
    /\ pc' = "refresh"
    /\ UNCHANGED <<env, calc, last_refresh, clock, ticks, fetched_total, credentials,
                   last_tracker_refresh, tracked_wallets, recent_signals, signals, todo,
                   addr, trades, outbox, sent, results, polled_ts, alerted, workers>>

\* lines 760-766: the periodic leaderboard refresh, when due
Refresh ==
    /\ pc = "refresh"
    /\ IF (clock - last_tracker_refresh) >= RefreshInterval
       THEN \/ RefreshReturns /\ last_tracker_refresh' = clock
            \/ RefreshRaises
       ELSE UNCHANGED <<tracked_wallets, last_tracker_refresh, last_refresh>>
    /\ pc' = "poll"
    /\ UNCHANGED <<env, calc, clock, ticks, fetched_total, credentials,
                   last_scanner_run, recent_signals, signals, todo, addr, trades,
                   outbox, sent, results, polled_ts, alerted, workers>>

\* line 769 and lines 492-497: the trade poll starts if any wallet is tracked
StartPoll ==
    /\ pc = "poll"
    /\ IF DOMAIN tracked_wallets # {}
       THEN /\ pc' = "trades"
            /\ todo' = InOrder(DOMAIN tracked_wallets)
            /\ polled_ts' = [a \in Wallets |->
                               IF a \in DOMAIN tracked_wallets
                               THEN tracked_wallets[a].last_seen_trade_ts
                               ELSE polled_ts[a]]
       ELSE /\ pc' = "sleep"
            /\ UNCHANGED <<todo, polled_ts>>
    /\ signals' = << >>
    /\ UNCHANGED <<env, calc, last_refresh, clock, ticks, fetched_total, credentials,
                   last_scanner_run, last_tracker_refresh, tracked_wallets,
                   recent_signals, addr, trades, outbox, sent, results, alerted,
                   workers>>

\* lines 497-578: one iteration of "for addr, sw in self.tracked_wallets.items()".
\* An exception leaves check_new_trades for the handler of line 781.
CheckWallet ==
    /\ pc = "trades"
    /\ todo # << >>
    /\ LET a == Head(todo)
           sw == tracked_wallets[a]
       IN  \E response \in Responses(clock, clock - activity_lookback_seconds) :
             /\ fetched_total + Len(response) <= MaxTrades
             /\ fetched_total' = fetched_total + Len(response)
             /\ addr' = a
             /\ trades' = response
             /\ LET r == ProcessBatch(a, sw, response, signals, ticks)
                IN  /\ signals' = r.signals
                    /\ tracked_wallets' =
                         [tracked_wallets EXCEPT ![a] = AfterPass(sw, response, r.raised)]
                    /\ IF r.raised
                       THEN /\ pc' = "poll_error"
                            /\ UNCHANGED <<todo, polled_ts>>
                       ELSE /\ pc' = "trades"
                            /\ todo' = Tail(todo)
                            /\ polled_ts' =
                                 [polled_ts EXCEPT
                                    ![a] = tracked_wallets'[a].last_seen_trade_ts]
    /\ UNCHANGED <<env, calc, last_refresh, clock, ticks, credentials, last_scanner_run,
                   last_tracker_refresh, recent_signals, outbox, sent, results, alerted,
                   workers>>

\* The trade a Signal was built from: the wallet and the trade of its feed
TradeOf(s) == <<s.wallet_address, s.trade, s.timestamp>>

\* line 580 and line 772: check_new_trades returns its list
ReturnSignals ==
    /\ pc = "trades"
    /\ todo = << >>
    /\ pc' = IF signals # << >> THEN "convergence" ELSE "sleep"
    /\ alerted' = alerted \cup {TradeOf(signals[i]) : i \in 1..Len(signals)}
    /\ UNCHANGED <<env, calc, last_refresh, clock, ticks, fetched_total, credentials,
                   last_scanner_run, last_tracker_refresh, tracked_wallets,
                   recent_signals, signals, todo, addr, trades, outbox, sent, results,
                   polled_ts, workers>>

\* line 773: new_signals = tracker.check_convergence(new_signals)
Converge ==
    /\ pc = "convergence"
    /\ recent_signals' = check_convergence(recent_signals, signals, clock)
    /\ outbox' = SubSeq(recent_signals', Len(recent_signals') - Len(signals) + 1,
                        Len(recent_signals'))
    /\ signals' = outbox'
    /\ pc' = "notify"
    /\ UNCHANGED <<env, calc, last_refresh, clock, ticks, fetched_total, credentials,
                   last_scanner_run, last_tracker_refresh, tracked_wallets, todo, addr,
                   trades, sent, results, polled_ts, alerted, workers>>

\* send_telegram: True if the Bot API answered ok; False, without raising, if it
\* answered otherwise or the request raised (lines 213-222)
send_telegram(delivered) == delivered

\* What can happen to a message: the delivery can fail where the chat fails
Deliveries == IF "telegram" \in env.faults THEN BOOLEAN ELSE {TRUE}

\* Faulty variant of Notify: a delivery that fails raises out of the loop
NotifyFailureFatal ==
    /\ pc = "notify"
    /\ outbox # << >>
    /\ \E delivered \in Deliveries :
          /\ sent' = Append(sent, Head(outbox))
          /\ results' = Append(results, send_telegram(delivered))
          /\ IF delivered
             THEN /\ outbox' = Tail(outbox)
                  /\ pc' = IF Tail(outbox) = << >> THEN "sleep" ELSE "notify"
             ELSE /\ outbox' = outbox
                  /\ pc' = "poll_error"
    /\ UNCHANGED <<env, calc, last_refresh, clock, ticks, fetched_total, credentials,
                   last_scanner_run, last_tracker_refresh, tracked_wallets,
                   recent_signals, signals, todo, addr, trades, polled_ts, alerted,
                   workers>>

\* lines 774-780: one iteration of "for sig in new_signals"; the value
\* send_telegram returns is not looked at
Notify ==
    /\ pc = "notify"
    /\ outbox # << >>
    /\ \E delivered \in Deliveries :
          /\ sent' = Append(sent, Head(outbox))
          /\ results' = Append(results, send_telegram(delivered))
    /\ outbox' = Tail(outbox)
    /\ pc' = IF Tail(outbox) = << >> THEN "sleep" ELSE "notify"
    /\ UNCHANGED <<env, calc, last_refresh, clock, ticks, fetched_total, credentials,
                   last_scanner_run, last_tracker_refresh, tracked_wallets,
                   recent_signals, signals, todo, addr, trades, polled_ts, alerted,
                   workers>>

\* lines 781-782: the handler of an exception of the trade poll; the list
\* check_new_trades was building is lost with its frame
TradePollError ==
    /\ pc = "poll_error"
    /\ pc' = "sleep"
    /\ UNCHANGED <<env, calc, last_refresh, clock, ticks, fetched_total, credentials,
                   last_scanner_run, last_tracker_refresh, tracked_wallets,
                   recent_signals, signals, todo, addr, trades, outbox, sent, results,
                   polled_ts, alerted, workers>>

\* line 785: time.sleep, then the next iteration of "while True"
Sleep ==
    /\ pc = "sleep"
    /\ ticks < MaxTicks
    /\ \E d \in env.delays : clock' = clock + d
    /\ ticks' = ticks + 1
    /\ pc' = "scanner"
    /\ signals' = << >>
    /\ todo' = << >>
    /\ addr' = ""
    /\ trades' = << >>
    /\ sent' = << >>
    /\ results' = << >>
    /\ last_refresh' = NoRefresh
    /\ UNCHANGED <<env, calc, fetched_total, credentials, last_scanner_run,
                   last_tracker_refresh, tracked_wallets, recent_signals, outbox,
                   polled_ts, alerted, workers>>

Next ==
    \/ Startup
    \/ InitialScan
    \/ RunScanner
    \/ Refresh
    \/ StartPoll
    \/ CheckWallet
    \/ ReturnSignals
    \/ Converge
    \/ Notify
    \/ TradePollError
    \/ Sleep

Spec == Init /\ [][Next]_vars

----------------------------------------------------------------------------
(* Calls of the functions that keep no state, each on arguments drawn from  *)
(* a bounded set: calc holds the arguments, and the result once the call    *)
(* has returned (ret is << >> before and <<result>> after).                 *)

\* The scheduler thread has not started
Idle ==
    /\ env = CHOOSE e \in Environments : e.name = "monitor"
    /\ pc = "start"
    /\ clock = StartTime
    /\ ticks = 0
    /\ fetched_total = 0
    /\ credentials = [token |-> FALSE, chat_id |-> FALSE]
    /\ last_scanner_run = 0
    /\ last_tracker_refresh = 0
    /\ tracked_wallets = [a \in {} |-> NewCandidate]
    /\ recent_signals = << >>
    /\ signals = << >>
    /\ todo = << >>
    /\ addr = ""
    /\ trades = << >>
    /\ outbox = << >>
    /\ sent = << >>
    /\ results = << >>
    /\ polled_ts = [a \in Wallets |-> 0]
    /\ alerted = {}
    /\ last_refresh = NoRefresh
    /\ workers = NoWorkers

\* A closed-positions response: n positions of $1000 each (2000 shares bought
\* at 0.50), the first wins of them closed with pnl win, the others with loss
Closed(c) ==
    [i \in 1..c.n |-> IF i <= c.wins THEN Position(c.win, 2000, 50)
                                     ELSE Position(c.loss, 2000, 50)]

ClosedInputs ==
    {c \in [n : {7, 8, 10, MaxPositions}, wins : 0..MaxPositions,
            win : {900, 1000, 1200}, loss : {-1000, -800, -600, 0}] : c.wins <= c.n}

\* The entries that carry one address, in the order the nested loops of
\* scan_leaderboard meet them (categories outside, periods inside)
EntryInputs ==
    LET E == {Entry(w, pnl, vol) : w \in {"ALL", "DAY"}, pnl \in {-50, -20, 100, 150},
                                   vol \in {300, 500}}
    IN  UNION {[1..n -> E] : n \in 1..MaxEntries}

\* RiskManager(bankroll, fraction).calculate_bet(market_price, user_prob) of
\* either file: a bankroll of 7 cents, $1000 and $1234.56.  No result on these
\* arguments is a tie of round(), where the binary value would decide.
BetInputs ==
    [file : {"bot", "risk_manager"}, bankroll : {7, 100000, 123456},
     fraction : {25, 50, 100}, market_price : {-10, 0, 1, 40, 50, 99, 100, 150},
     user_prob : {-10, 0, 30, 52, 60, 90, 100, 150}]

\* What one requests.get of api_get can meet: a 200 with a JSON body, a 404, a
\* 429, or a RequestException (a timeout, a connection error, the HTTPError of
\* raise_for_status, the JSONDecodeError of resp.json())
HttpAnswers == {"ok", "404", "429", "error"}

\* api_get(url, params, retries) and what each of its requests will meet
ApiInputs ==
    UNION {[retries : {n}, answers : [1..n -> HttpAnswers]] : n \in 0..MaxRetries}

\* Faulty variant of api_get: the exception of the last attempt is raised again
api_get_reraises(c) ==
    IF c.attempt >= c.retries THEN [c EXCEPT !.ret = <<"None">>]
    ELSE LET answer == c.answers[c.attempt + 1]
         IN  CASE answer = "429" ->
                    [c EXCEPT !.slept = Append(@, 2 ^ c.attempt * 5), !.attempt = @ + 1]
               [] answer = "404" -> [c EXCEPT !.attempt = @ + 1, !.ret = <<"None">>]
               [] answer = "ok" -> [c EXCEPT !.attempt = @ + 1, !.ret = <<"json">>]
               [] OTHER ->
                    IF c.attempt < c.retries - 1
                    THEN [c EXCEPT !.slept = Append(@, 2 ^ c.attempt + 1),
                                   !.attempt = @ + 1]
                    ELSE [c EXCEPT !.attempt = @ + 1, !.ret = <<"raise">>]

\* api_get, one iteration of "for attempt in range(retries)" or, when the range
\* is exhausted, the return of line 197.  attempt counts the requests made,
\* slept lists the time.sleep calls, ret is << >> while the call runs.
api_get(c) ==
    IF c.attempt >= c.retries THEN [c EXCEPT !.ret = <<"None">>]
    ELSE LET answer == c.answers[c.attempt + 1]
         IN  CASE answer = "429" ->
                    [c EXCEPT !.slept = Append(@, 2 ^ c.attempt * 5), !.attempt = @ + 1]
               [] answer = "404" -> [c EXCEPT !.attempt = @ + 1, !.ret = <<"None">>]
               [] answer = "ok" -> [c EXCEPT !.attempt = @ + 1, !.ret = <<"json">>]
               [] OTHER ->
                    IF c.attempt < c.retries - 1
                    THEN [c EXCEPT !.slept = Append(@, 2 ^ c.attempt + 1),
                                   !.attempt = @ + 1]
                    ELSE [c EXCEPT !.attempt = @ + 1, !.ret = <<"None">>]

CallsInit ==
    /\ Idle
    /\ \/ \E c \in ClosedInputs :
             calc = [op |-> "validate_track_records", closed |-> c, ret |-> << >>]
       \/ \E es \in EntryInputs :
             calc = [op |-> "scan_leaderboard", entries |-> es, ret |-> << >>]
       \/ \E b \in BetInputs :
             calc = [op |-> "calculate_bet", args |-> b, ret |-> << >>]
       \/ \E i \in ApiInputs :
             calc = [op |-> "api_get", retries |-> i.retries, answers |-> i.answers,
                     attempt |-> 0, slept |-> << >>, ret |-> << >>]

\* validate_track_records on one candidate with the closed positions of calc
ValidateTrackRecords ==
    /\ calc.op = "validate_track_records"
    /\ calc.ret = << >>
    /\ calc' = [calc EXCEPT !.ret =
                  <<validate_track_records([a \in {"w1"} |-> NewCandidate],
                                           [a \in {"w1"} |-> Closed(calc.closed)])>>]
    /\ UNCHANGED <<env, pc, clock, ticks, fetched_total, credentials, last_scanner_run,
                   last_tracker_refresh, tracked_wallets, recent_signals, signals, todo,
                   addr, trades, outbox, sent, results, polled_ts, last_refresh,
                   alerted, workers>>

\* lines 389-410 of scan_leaderboard for one address: the candidate record
\* after the entries of calc have been merged
MergeLeaderboard ==
    /\ calc.op = "scan_leaderboard"
    /\ calc.ret = << >>
    /\ calc' = [calc EXCEPT !.ret = <<MergeEntries(NewCandidate, calc.entries)>>]
    /\ UNCHANGED <<env, pc, clock, ticks, fetched_total, credentials, last_scanner_run,
                   last_tracker_refresh, tracked_wallets, recent_signals, signals, todo,
                   addr, trades, outbox, sent, results, polled_ts, last_refresh,
                   alerted, workers>>

\* calculate_bet of src/bot.py
CalculateBet ==
    /\ calc.op = "calculate_bet"
    /\ calc.args.file = "bot"
    /\ calc.ret = << >>
    /\ calc' = [calc EXCEPT !.ret =
                  <<calculate_bet(calc.args.bankroll, calc.args.fraction,
                                  calc.args.market_price, calc.args.user_prob)>>]
    /\ UNCHANGED <<env, pc, clock, ticks, fetched_total, credentials, last_scanner_run,
                   last_tracker_refresh, tracked_wallets, recent_signals, signals, todo,
                   addr, trades, outbox, sent, results, polled_ts, last_refresh,
                   alerted, workers>>

\* calculate_bet of src/risk_manager.py
CalculateBetRiskManager ==
    /\ calc.op = "calculate_bet"
    /\ calc.args.file = "risk_manager"
    /\ calc.ret = << >>
    /\ calc' = [calc EXCEPT !.ret =
                  <<risk_manager_calculate_bet(calc.args.bankroll, calc.args.fraction,
                                               calc.args.market_price, calc.args.user_prob)>>]
    /\ UNCHANGED <<env, pc, clock, ticks, fetched_total, credentials, last_scanner_run,
                   last_tracker_refresh, tracked_wallets, recent_signals, signals, todo,
                   addr, trades, outbox, sent, results, polled_ts, last_refresh,
                   alerted, workers>>

\* The thread inside api_get: its next request, sleep or return
ApiGet ==
    /\ calc.op = "api_get"
    /\ calc.ret = << >>
    /\ calc' = api_get(calc)
    /\ UNCHANGED <<env, pc, clock, ticks, fetched_total, credentials, last_scanner_run,
                   last_tracker_refresh, tracked_wallets, recent_signals, signals, todo,
                   addr, trades, outbox, sent, results, polled_ts, last_refresh,
                   alerted, workers>>

CallsNext ==
    \/ ValidateTrackRecords
    \/ MergeLeaderboard
    \/ CalculateBet
    \/ CalculateBetRiskManager
    \/ ApiGet

Calls == CallsInit /\ [][CallsNext]_vars

\* The calling thread keeps running: requests.get carries timeout=20 and every
\* time.sleep is finite
CallsLive == Calls /\ WF_vars(ApiGet)

----------------------------------------------------------------------------
(* The deployment.  gunicorn forks worker processes and post_fork starts,  *)
(* in each, one thread that runs bot_main_loop; the Flask handlers of the   *)
(* worker read the configuration only.  The steps of different workers      *)
(* interleave freely; a worker's pc names the call its thread is inside.    *)

\* The calls of bot_main_loop that write tracked_wallets or recent_signals
Activities == {"refresh_wallets", "check_new_trades", "check_convergence"}

\* Faulty variant of NewTracker: one tracker shared by the bot threads
NewTrackerShared(w) == [process |-> 0, owner |-> 0]

\* line 734, tracker = SmartMoneyTracker(): a new object in the address space
\* of worker w, referenced by a local of the thread that made it
NewTracker(w) == [process |-> w, owner |-> w]

WorkersInit ==
    /\ env = CHOOSE e \in Environments : e.name = "monitor"
    /\ pc = "start"
    /\ clock = StartTime
    /\ ticks = 0
    /\ fetched_total = 0
    /\ credentials \in [token : BOOLEAN, chat_id : BOOLEAN]
    /\ last_scanner_run = 0
    /\ last_tracker_refresh = 0
    /\ tracked_wallets = [a \in {} |-> NewCandidate]
    /\ recent_signals = << >>
    /\ signals = << >>
    /\ todo = << >>
    /\ addr = ""
    /\ trades = << >>
    /\ outbox = << >>
    /\ sent = << >>
    /\ results = << >>
    /\ polled_ts = [a \in Wallets |-> 0]
    /\ alerted = {}
    /\ last_refresh = NoRefresh
    /\ calc = NoCall
    /\ workers = NoWorkers

\* The variables of the other specifications
Scheduler ==
    <<env, pc, clock, ticks, fetched_total, credentials, last_scanner_run,
      last_tracker_refresh, tracked_wallets, recent_signals, signals, todo, addr,
      trades, outbox, sent, results, polled_ts, alerted, last_refresh, calc>>

\* gunicorn_conf.post_fork: the worker is forked and its bot thread started
PostFork ==
    \E w \in 1..MaxWorkers :
        /\ workers[w].pc = "unforked"
        /\ workers' = [workers EXCEPT ![w].pc = "startup"]
        /\ UNCHANGED Scheduler

\* lines 720-746: the credential check, the construction of the tracker and the
\* entry into the initial refresh_wallets
WorkerStartup ==
    \E w \in 1..MaxWorkers :
        /\ workers[w].pc = "startup"
        /\ workers' = IF CredentialsMissing(credentials)
                      THEN [workers EXCEPT ![w].pc = "returned"]
                      ELSE [workers EXCEPT ![w].pc = "refresh_wallets",
                                           ![w].tracker = <<NewTracker(w)>>]
        /\ UNCHANGED Scheduler

\* lines 744 and 764: refresh_wallets returns (or raises), and the thread goes
\* on to the trade poll or, with nothing tracked, to the sleep
RefreshDone ==
    \E w \in 1..MaxWorkers, next \in {"check_new_trades", "sleep"} :
        /\ workers[w].pc = "refresh_wallets"
        /\ workers' = [workers EXCEPT ![w].pc = next]
        /\ UNCHANGED Scheduler

\* lines 771-773: check_new_trades returns (or raises); with signals the thread
\* enters check_convergence
PollDone ==
    \E w \in 1..MaxWorkers, next \in {"check_convergence", "sleep"} :
        /\ workers[w].pc = "check_new_trades"
        /\ workers' = [workers EXCEPT ![w].pc = next]
        /\ UNCHANGED Scheduler

\* lines 773-780: check_convergence returns and the alerts are sent
ConvergenceDone ==
    \E w \in 1..MaxWorkers :
        /\ workers[w].pc = "check_convergence"
        /\ workers' = [workers EXCEPT ![w].pc = "sleep"]
        /\ UNCHANGED Scheduler

\* line 785 and the head of the next iteration: the refresh if it is due, else
\* the poll if a wallet is tracked, else the next sleep
WorkerWakes ==
    \E w \in 1..MaxWorkers, next \in {"refresh_wallets", "check_new_trades", "sleep"} :
        /\ workers[w].pc = "sleep"
        /\ workers[w].tick < MaxTicks
        /\ workers' = [workers EXCEPT ![w].pc = next, ![w].tick = @ + 1]
        /\ UNCHANGED Scheduler

WorkersNext ==
    \/ PostFork
    \/ WorkerStartup
    \/ RefreshDone
    \/ PollDone
    \/ ConvergenceDone
    \/ WorkerWakes

Workers == WorkersInit /\ [][WorkersNext]_vars

----------------------------------------------------------------------------
(* Properties *)

Cursor(a) == tracked_wallets[a].last_seen_trade_ts

\* The step is one completed pass of check_new_trades over a wallet (no exception)
WalletPass == pc = "trades" /\ todo # << >> /\ pc' = "trades"

\* The signals that the step appended to check_new_trades' list
Emitted == {signals'[i] : i \in (Len(signals) + 1)..Len(signals')}

\* The largest timestamp of a non-empty response
BatchMax(batch) ==
    CHOOSE m \in {batch[i].timestamp : i \in 1..Len(batch)} :
        \A i \in 1..Len(batch) : batch[i].timestamp <= m

\* C1 as claimed: at every trade poll, each tracked address holds a cursor
\* that is at least the cursor it held at any earlier poll, whatever
\* refreshes happened in between.
C1_CursorNeverBelowEarlierPoll ==
    pc = "poll" => \A a \in DOMAIN tracked_wallets : Cursor(a) >= polled_ts[a]

\* C1 as amended: while an address stays in the tracked set (through polls and
\* through refreshes at which it re-qualifies) its cursor never decreases.
C1_CursorMonotoneWhileTracked ==
    [][\A a \in DOMAIN tracked_wallets \cap DOMAIN tracked_wallets' :
          tracked_wallets'[a].last_seen_trade_ts >= Cursor(a)]_vars

\* C1 witness: a wallet is about to be polled with a cursor it won in an
\* earlier tick and carried through the refresh of this tick.
C1_Witness ==
    /\ pc = "poll"
    /\ ticks >= 1
    /\ last_tracker_refresh = clock
    /\ \E a \in DOMAIN tracked_wallets : Cursor(a) > 0 /\ Cursor(a) = polled_ts[a]

\* C2: in a wallet's pass only trades strictly newer than the cursor the
\* wallet held at the start of the pass are emitted; a trade at or before
\* that cursor is never emitted.
C2_OnlyNewerThanCursorEmitted ==
    [][pc = "trades" /\ todo # << >> =>
          \A s \in Emitted :
              /\ s.wallet_address = Head(todo)
              /\ s.timestamp > Cursor(Head(todo))
              /\ \E i \in 1..Len(trades') : trades'[i].timestamp = s.timestamp]_vars

\* C2 witness: a pass has completed in which an otherwise admissible trade was
\* fetched and not emitted: it was at or before the cursor.
C2_Witness ==
    /\ pc = "trades"
    /\ \E i \in 1..Len(trades) :
          /\ trades[i].kind = "buy"
          /\ \A s \in Range(signals) :
                ~(s.wallet_address = addr /\ s.timestamp = trades[i].timestamp)

\* C3: a completed pass over a non-empty response leaves the wallet's cursor
\* at the maximum of its previous cursor and the largest timestamp of the
\* whole response, whichever trades were emitted.
C3_CursorAdvancesToBatchMax ==
    [][WalletPass /\ trades' # << >> =>
          tracked_wallets'[addr'].last_seen_trade_ts
             = Max(Cursor(addr'), BatchMax(trades'))]_vars

\* C3 witness, the example of the claim with T = StartTime: the wallet had
\* emitted a trade at T, the response holds a trade below the notional floor
\* at T+50 and an admissible one at T+10; one signal is emitted, at T+10,
\* and the cursor is T+50.
C3_Witness ==
    /\ pc = "trades"
    /\ \E r \in Range(recent_signals) :
          r.wallet_address = addr /\ r.timestamp = StartTime
    /\ Len(trades) = 2
    /\ trades[1].kind = "small" /\ trades[1].timestamp = StartTime + 50
    /\ trades[2].kind = "buy" /\ trades[2].timestamp = StartTime + 10
    /\ Cardinality({i \in 1..Len(signals) : signals[i].wallet_address = addr}) = 1
    /\ \E i \in 1..Len(signals) :
          signals[i].wallet_address = addr /\ signals[i].timestamp = StartTime + 10
    /\ Cursor(addr) = StartTime + 50

\* C4 as claimed: when a trade poll aborts, every admitted trade of that poll
\* was handed to the notifier or is still strictly newer than its wallet's
\* cursor (so that a later poll can emit it).
C4_NoAdmittedTradeLostOnAbort ==
    pc = "poll_error" =>
        \A s \in Range(signals) :
            \/ \E t \in Range(sent) : t.oid = s.oid
            \/ s.timestamp > Cursor(s.wallet_address)

\* C5 as claimed: an exception in one wallet's pass does not keep the wallets
\* after it from being fetched and filtered in the same poll (in the handler,
\* todo holds the wallet whose pass raised and the wallets never visited).
C5_RemainingWalletsProcessed ==
    pc = "poll_error" => Len(todo) <= 1

\* C6: a pass whose response holds no trade newer than the wallet's cursor
\* (the same data fetched again, or no new activity) emits no signal and
\* leaves the cursor unchanged.
C6_NoNewActivityIsNoOp ==
    [][(/\ pc = "trades" /\ todo # << >>
        /\ \A i \in 1..Len(trades') : trades'[i].timestamp <= Cursor(Head(todo)))
       => /\ signals' = signals
          /\ pc' = "trades"
          /\ tracked_wallets' = tracked_wallets]_vars

\* C6 witness: in a later tick a pass fetched an otherwise admissible trade
\* that lies below the cursor, emitted nothing for the wallet and left the
\* cursor above the whole response.
C6_Witness ==
    /\ pc = "trades"
    /\ ticks >= 1
    /\ trades # << >>
    /\ \E i \in 1..Len(trades) : trades[i].kind = "buy"
    /\ \A i \in 1..Len(trades) : trades[i].timestamp < Cursor(addr)
    /\ \A s \in Range(signals) : s.wallet_address # addr

\* Every Signal object alive: in check_new_trades' list / new_signals, or
\* retained in the recent-signal window
LiveSignals == Range(signals) \cup Range(recent_signals)

\* The addresses, other than that of sig, that have in the set S a signal on
\* sig's market and outcome with a timestamp within the window of sig's
OtherWallets(sig, S) ==
    {a \in Wallets \ {sig.wallet_address} :
        \E r \in S : /\ r.wallet_address = a
                     /\ r.market_slug = sig.market_slug
                     /\ r.outcome = sig.outcome
                     /\ r.timestamp - sig.timestamp < convergence_window_minutes * 60
                     /\ sig.timestamp - r.timestamp < convergence_window_minutes * 60}

\* new_signals as returned by check_convergence, while they are being sent
NewBatch == IF pc = "notify" THEN Range(signals) ELSE {}

\* The signals retained from earlier batches, while new_signals are being sent
EarlierBatches == Range(recent_signals) \ Range(signals)

\* C7: the convergence count of every Signal is at least 1 in every state and
\* never decreases from the signal's creation to its expiry.
C7_CountAtLeastOneAndNeverDecreases ==
    /\ [](\A s \in LiveSignals : s.convergence_count >= 1)
    /\ [][\A s \in LiveSignals : \A t \in LiveSignals' :
             t.oid = s.oid => t.convergence_count >= s.convergence_count]_vars

\* C7 witness: a signal created with count 1 has been raised by the
\* aggregator and is retained with a count of 2 or more.
C7_Witness ==
    /\ pc = "sleep"
    /\ \E s \in Range(recent_signals) : s.convergence_count >= 2

\* C8: check_convergence gives each signal of its batch the count 1 + the
\* number of distinct other addresses with a matching signal (same market,
\* same outcome, timestamp within the window) among the signals retained
\* before the call and not pruned at the time of the call, and the batch.
C8_CountIsOnePlusDistinctOtherWallets ==
    [][pc = "convergence" =>
          /\ Len(signals') = Len(signals)
          /\ \A i \in 1..Len(signals) :
                /\ signals'[i].oid = signals[i].oid
                /\ signals'[i].convergence_count =
                     1 + Cardinality(OtherWallets(signals[i],
                            {r \in Range(recent_signals) :
                                clock - r.timestamp < convergence_window_minutes * 60}
                            \cup Range(signals)))]_vars

\* C8 witness: a signal was given count 2 while two retained signals of one
\* and the same other wallet match it.
C8_Witness ==
    /\ pc = "notify"
    /\ \E s \in Range(signals) :
          /\ s.convergence_count = 2
          /\ \E i, j \in 1..Len(recent_signals) :
                /\ i # j
                /\ recent_signals[i].wallet_address = recent_signals[j].wallet_address
                /\ Matching(recent_signals[i], s)
                /\ Matching(recent_signals[j], s)

\* The position of a signal of the new batch in recent_signals (evaluation order)
PositionOf(s) == CHOOSE i \in 1..Len(recent_signals) : recent_signals[i].oid = s.oid

\* The other wallets with a matching retained signal evaluated before s
EvaluatedBefore(s) ==
    OtherWallets(s, {recent_signals[i] : i \in 1..(PositionOf(s) - 1)})

\* C9 as claimed: of the matching signals of several wallets, the one of the
\* second wallet to be evaluated gets count 2 and the one of the third wallet
\* gets count 3, in one batch as in successive batches.
C9_SecondGetsTwoThirdGetsThree ==
    \A s \in NewBatch :
        /\ Cardinality(EvaluatedBefore(s)) = 1 => s.convergence_count = 2
        /\ Cardinality(EvaluatedBefore(s)) = 2 => s.convergence_count = 3

\* C9 as amended: a signal whose batch holds no matching signal of another
\* wallet gets 2 when one other wallet has a matching signal retained from an
\* earlier batch and 3 when two have; a signal whose matching signals all come
\* in its own batch gets k, the number of wallets with matching signals in the
\* batch, wherever it stands in the batch.
C9_CountAcrossAndWithinBatches ==
    \A s \in NewBatch :
        LET earlier == OtherWallets(s, EarlierBatches)
            same == OtherWallets(s, NewBatch)
        IN  /\ same = {} /\ Cardinality(earlier) = 1 => s.convergence_count = 2
            /\ same = {} /\ Cardinality(earlier) = 2 => s.convergence_count = 3
            /\ earlier = {} => s.convergence_count = 1 + Cardinality(same)

\* C9 witness: three wallets' matching signals arrive in one batch and the
\* second one evaluated has count 3.
C9_Witness ==
    /\ pc = "notify"
    /\ Len(signals) = 3
    /\ OtherWallets(signals[2], NewBatch) = Wallets \ {signals[2].wallet_address}
    /\ EarlierBatches = {}
    /\ signals[2].convergence_count = 3

\* C9 second witness: the matching signals arrive in three successive batches
\* and the third wallet's signal has count 3.
C9_WitnessSuccessive ==
    /\ pc = "notify"
    /\ Len(signals) = 1
    /\ Cardinality(OtherWallets(signals[1], EarlierBatches)) = 2
    /\ signals[1].convergence_count = 3

\* C10: check_convergence changes the count only of the signals of the batch
\* it is called with: a signal retained from an earlier batch keeps its count
\* when a later matching signal arrives.
C10_RetainedCountUnchanged ==
    [][\A s \in Range(recent_signals) : \A t \in Range(recent_signals') :
          t.oid = s.oid => t = s]_vars

\* C10 witness: a signal delivered with count 1 in an earlier batch is retained
\* with count 1 while a later matching signal of another wallet has count 2.
C10_Witness ==
    /\ pc = "notify"
    /\ \E s \in NewBatch : \E r \in EarlierBatches :
          /\ Matching(r, s)
          /\ r.convergence_count = 1
          /\ s.convergence_count = 2

\* C11: once the tracked set is non-empty, no step (a refresh that finds an
\* empty leaderboard, one whose candidates all fail a layer, one that raises,
\* or a trade poll) leaves it empty.
C11_TrackedSetNeverEmptied ==
    [][DOMAIN tracked_wallets # {} => DOMAIN tracked_wallets' # {}]_vars

\* C11 witness: in a later tick the periodic refresh found candidates none of
\* which passed Layer 3, and the poll starts with the wallets tracked before.
C11_Witness ==
    /\ pc = "poll"
    /\ ticks >= 1
    /\ last_refresh.called /\ ~last_refresh.raised
    /\ last_refresh.candidates # {} /\ last_refresh.survivors = {}
    /\ DOMAIN tracked_wallets # {}

\* C12: a wallet that validate_track_records admits gets tier A iff its win
\* rate is at least 0.65 and its ROI at least 50, else tier B iff its win rate
\* is at least 0.58 and its ROI at least 25, else tier C; the tier is one of
\* the three.  Win rate and ROI are taken from the response itself.
C12_TierByPriority ==
    calc.op = "validate_track_records" /\ calc.ret # << >> =>
        LET c == calc.closed
            pnl == c.wins * c.win + (c.n - c.wins) * c.loss
            wr(x) == c.wins * 100 >= x * c.n
            roi(y) == pnl * 100 >= y * (c.n * 1000)
            top == wr(65) /\ roi(50)
            mid == wr(58) /\ roi(25)
        IN  \A a \in DOMAIN calc.ret[1] :
              LET tier == calc.ret[1][a].tier
              IN  /\ tier \in {"A", "B", "C"}
                  /\ tier = "A" <=> top
                  /\ tier = "B" <=> ~top /\ mid
                  /\ tier = "C" <=> ~top /\ ~mid

\* C12 witness: win rate 0.70 and ROI 60 (7 of 10 positions won at +1200, 3
\* lost at -800, on $1000 each) pass both tests and the wallet got tier A.
C12_Witness ==
    /\ calc.op = "validate_track_records"
    /\ calc.closed = [n |-> 10, wins |-> 7, win |-> 1200, loss |-> -800]
    /\ calc.ret # << >>
    /\ DOMAIN calc.ret[1] = {"w1"}
    /\ calc.ret[1]["w1"].tier = "A"

\* The values observed for a window in the entries of calc, by field
Observed(w, field) ==
    {calc.entries[i][field] : i \in {j \in 1..Len(calc.entries) : calc.entries[j].period = w}}

\* The number of entries of calc for a window
Listings(w) == Cardinality({j \in 1..Len(calc.entries) : calc.entries[j].period = w})

MaxOf(S) == CHOOSE m \in S : \A x \in S : x <= m

\* The merged figures, by window
Merged(sw, w) == IF w = "ALL" THEN sw.pnl_all ELSE sw.pnl_day

\* The entries of calc fetched in another order give the same record
OrderIndependent ==
    \A q \in Permutations(1..Len(calc.entries)) :
        MergeEntries(NewCandidate, [i \in 1..Len(calc.entries) |-> calc.entries[q[i]]])
            = calc.ret[1]

\* C13 as claimed: for a window in which the address is listed more than
\* once, the merged profit and volume are the maximum of the observed values.
C13_MergedIsMaxOfObserved ==
    calc.op = "scan_leaderboard" /\ calc.ret # << >> =>
        /\ \A w \in {"ALL", "DAY"} :
              Listings(w) >= 2 => Merged(calc.ret[1], w) = MaxOf(Observed(w, "pnl"))
        /\ Listings("ALL") >= 2 => calc.ret[1].vol_all = MaxOf(Observed("ALL", "vol"))

\* C13 as amended: the merged figure of a window is the maximum of 0 (the
\* value a new record starts with) and the values observed for the window,
\* never their sum, and it does not depend on the order of the entries.
C13_MergedIsMaxOfObservedAndZero ==
    calc.op = "scan_leaderboard" /\ calc.ret # << >> =>
        /\ \A w \in {"ALL", "DAY"} :
              Merged(calc.ret[1], w) = MaxOf(Observed(w, "pnl") \cup {0})
        /\ calc.ret[1].vol_all = MaxOf(Observed("ALL", "vol") \cup {0})
        /\ OrderIndependent

\* C13 witness: all-time profits 100 and 150 from two categories merged to 150.
C13_Witness ==
    /\ calc.op = "scan_leaderboard"
    /\ calc.entries = <<Entry("ALL", 100, 300), Entry("ALL", 150, 500)>>
    /\ calc.ret # << >>
    /\ calc.ret[1].pnl_all = 150
    /\ calc.ret[1].vol_all = 500

\* The call of calc is a returned calculate_bet with a price inside (0, 1)
PricedBet ==
    /\ calc.op = "calculate_bet"
    /\ calc.ret # << >>
    /\ calc.args.market_price > 0 /\ calc.args.market_price < 100

\* The fractional Kelly value of the call, raw Kelly times the Kelly fraction,
\* exceeds 0.10: raw Kelly is (p - m) / (1 - m)
OverCap ==
    (calc.args.user_prob - calc.args.market_price) * calc.args.fraction * 10
        > (100 - calc.args.market_price) * 100

\* C14 as claimed: for a price inside (0, 1) the stake fraction is between 0
\* and 0.10, and when the fractional Kelly value exceeds 0.10 the stake is
\* exactly a tenth of the bankroll.
C14_StakeIsExactlyTenthWhenCapped ==
    PricedBet =>
        /\ calc.ret[1].percentage >= 0 /\ calc.ret[1].percentage <= 1000
        /\ OverCap => calc.ret[1].suggested_usd * 10 = calc.args.bankroll

\* C14 as amended: for a price inside (0, 1) the stake fraction returned is
\* between 0 and 0.10 (percentage between 0 and 10.00), and when the
\* fractional Kelly value exceeds 0.10 the percentage is 10.00 and the stake
\* is a tenth of the bankroll rounded to the cent.
C14_StakeFractionCapped ==
    PricedBet =>
        /\ calc.ret[1].percentage >= 0 /\ calc.ret[1].percentage <= 1000
        /\ calc.ret[1].suggested_usd >= 0
        /\ OverCap =>
              /\ calc.ret[1].percentage = 1000
              /\ calc.ret[1].suggested_usd = RoundHalfEven(calc.args.bankroll, 10)

\* C14 witness: price 0.50, probability 90, full Kelly and $1234.56: raw Kelly
\* 0.8 is capped; the stake is $123.46 and the percentage 10.00.
C14_Witness ==
    /\ PricedBet /\ OverCap
    /\ calc.args = [file |-> "bot", bankroll |-> 123456, fraction |-> 100,
                    market_price |-> 50, user_prob |-> 90]
    /\ calc.ret[1].percentage = 1000
    /\ calc.ret[1].suggested_usd = 12346

\* The example of the contract: price 0.40, probability 60, quarter Kelly and
\* $1000 give stake $83.33, 8.33 percent and edge 20.00.
KellyExample ==
    /\ PricedBet
    /\ calc.args = [file |-> "bot", bankroll |-> 100000, fraction |-> 25,
                    market_price |-> 40, user_prob |-> 60]
    /\ calc.ret[1] = [suggested_usd |-> 8333, percentage |-> 833, edge |-> 2000]

\* C15 as claimed: for a price at or below 0 or at or above 1, calculate_bet of
\* either file returns stake 0, stake fraction 0 and edge 0.
C15_InvalidPriceGivesZeroStakeResult ==
    /\ calc.op = "calculate_bet"
    /\ calc.ret # << >>
    /\ (calc.args.market_price <= 0 \/ calc.args.market_price >= 100)
    => calc.ret[1] = [suggested_usd |-> 0, percentage |-> 0, edge |-> 0]

\* The market scan was due in this tick and raised
ScannerRaised == (clock - last_scanner_run) >= ScanInterval

\* C16: in every tick the market scan, the leaderboard refresh and the trade
\* poll are checked in this order whatever the earlier one did (ran, was not
\* due, or raised); an exception of the trade poll leads to the sleep, and the
\* sleep to the next tick.
C16_AllActivitiesCheckedEveryTick ==
    [][/\ pc = "scanner" => pc' = "refresh"
       /\ pc = "refresh" => pc' = "poll"
       /\ pc = "poll" => pc' \in {"trades", "sleep"}
       /\ pc \in {"trades", "convergence", "notify"} =>
             pc' \in {"trades", "convergence", "notify", "poll_error", "sleep"}
       /\ pc = "poll_error" => pc' = "sleep"
       /\ pc = "sleep" => pc' = "scanner" /\ ticks' = ticks + 1]_vars

\* C16 witness: a tick after the first in which the market scan raised, the
\* refresh raised, the trade poll ran and raised too, and the thread is at
\* the sleep with another tick to come.
C16_Witness ==
    /\ pc = "sleep"
    /\ ticks >= 1 /\ ticks < MaxTicks
    /\ ScannerRaised
    /\ last_refresh.raised
    /\ todo # << >>

\* C17: with the bot token or the chat id missing, bot_main_loop never gets
\* past its credential check: no refresh, no market scan, no trade poll and
\* no notification has happened in any state.
C17_NoSchedulingWithoutCredentials ==
    ~credentials.token \/ ~credentials.chat_id =>
        /\ pc \in {"start", "returned"}
        /\ ticks = 0
        /\ last_refresh = NoRefresh /\ last_tracker_refresh = 0
        /\ last_scanner_run = 0
        /\ DOMAIN tracked_wallets = {}
        /\ fetched_total = 0 /\ addr = "" /\ signals = << >>
        /\ recent_signals = << >> /\ outbox = << >> /\ sent = << >>

\* C17 witness: the token is set, the chat id is not, and the function has
\* returned.
C17_Witness ==
    /\ credentials.token /\ ~credentials.chat_id
    /\ pc = "returned"

RefreshStep == pc \in {"initial_scan", "refresh"} /\ last_refresh'.called /\ ~last_refresh'.raised

\* C19: a refresh in which scan_leaderboard returns no candidate, or
\* validate_track_records no wallet, leaves the tracked map (addresses, tiers,
\* cursors and every other field) and the recent signals as they were.
C19_FruitlessRefreshChangesNothing ==
    [][RefreshStep /\ (last_refresh'.candidates = {} \/ last_refresh'.survivors = {}) =>
          /\ tracked_wallets' = tracked_wallets
          /\ recent_signals' = recent_signals]_vars

\* C19 witness: in a later tick the refresh found no candidate at all; the wallet
\* tracked before is about to be polled with the cursor of its latest poll, and
\* the signal retained from that poll is still there.
C19_Witness ==
    /\ pc = "poll"
    /\ ticks >= 1
    /\ last_refresh.called /\ ~last_refresh.raised /\ last_refresh.candidates = {}
    /\ recent_signals # << >>
    /\ \E a \in DOMAIN tracked_wallets : Cursor(a) > 0 /\ Cursor(a) = polled_ts[a]

\* C20: from a refresh with at least one wallet returned by
\* validate_track_records on, the tracked addresses are exactly those wallets:
\* a wallet tracked before that was not returned is gone with its record, and
\* in no state are wallets of the two generations tracked together.
C20_TrackedSetIsTheSurvivors ==
    last_refresh.called /\ ~last_refresh.raised /\ last_refresh.survivors # {} =>
        DOMAIN tracked_wallets = last_refresh.survivors

\* C20 witness: w1 was tracked and polled in an earlier tick; the refresh of
\* this tick returned w2 alone, and w2 alone is tracked.
C20_Witness ==
    /\ pc = "poll"
    /\ ticks >= 1
    /\ polled_ts["w1"] > 0
    /\ last_refresh.called /\ last_refresh.survivors = {"w2"}
    /\ DOMAIN tracked_wallets = {"w2"}

\* C21: a refresh that ends with survivors leaves, for every tracked wallet, the
\* record validate_track_records built in this cycle (figures and tier), with the
\* cursor the wallet had in the previous tracked map, or 0 if it was not in it
C21_RequalifiedKeepsCursorTakesNewRecord ==
    [][RefreshStep /\ last_refresh'.survivors # {} =>
         /\ DOMAIN tracked_wallets' = last_refresh'.survivors
         /\ \A a \in DOMAIN tracked_wallets' :
               tracked_wallets'[a] =
                 [last_refresh'.validated[a] EXCEPT !.last_seen_trade_ts =
                    IF a \in DOMAIN tracked_wallets
                    THEN tracked_wallets[a].last_seen_trade_ts
                    ELSE 0]]_vars

\* a wallet alerted at tier A is tracked at tier C after the next refresh, its
\* cursor still on the trade it was alerted for
C21_Witness ==
    /\ pc = "poll"
    /\ ticks >= 1
    /\ last_refresh.survivors = {"w1"}
    /\ tracked_wallets["w1"].tier = "C"
    /\ tracked_wallets["w1"].last_seen_trade_ts > 0
    /\ \E s \in Range(recent_signals) :
          /\ s.wallet_address = "w1"
          /\ s.wallet_tier = "A"
          /\ s.timestamp = tracked_wallets["w1"].last_seen_trade_ts

\* The figures and tier of a wallet record, the cursor left aside
Figures(sw) == [sw EXCEPT !.last_seen_trade_ts = 0]

\* The record passes the four stages on its own figures
Qualified(sw) ==
    /\ sw.pnl_all >= min_pnl_all_time
    /\ sw.vol_all >= min_volume_all_time
    /\ sw.profitable_windows \in 0..4
    /\ sw.profitable_windows =
         Cardinality({w \in {"day", "week", "month", "all"} :
            CASE w = "day" -> sw.pnl_day > 0
              [] w = "week" -> sw.pnl_week > 0
              [] w = "month" -> sw.pnl_month > 0
              [] w = "all" -> sw.pnl_all > 0})
    /\ sw.profitable_windows >= min_profitable_windows
    /\ sw.closed_positions_count >= min_closed_positions
    /\ sw.win_rate >= min_win_rate * 10
    /\ sw.roi_percent >= min_roi_percent * 10

\* C22: the record of every tracked wallet meets the minimums of all four stages
\* (all-time profit and volume, profitable windows, valid sample size, win rate
\* and ROI), and the figures of the tracked records change only in a refresh,
\* which replaces them all by records validated in that one cycle.
C22_TrackedSurvivedAllStagesOfOneCycle ==
    /\ [](\A a \in DOMAIN tracked_wallets : Qualified(tracked_wallets[a]))
    /\ [][[a \in DOMAIN tracked_wallets' |-> Figures(tracked_wallets'[a])]
            # [a \in DOMAIN tracked_wallets |-> Figures(tracked_wallets[a])] =>
          /\ RefreshStep
          /\ DOMAIN tracked_wallets' = last_refresh'.survivors
          /\ \A a \in DOMAIN tracked_wallets' :
                Figures(tracked_wallets'[a]) = Figures(last_refresh'.validated[a])]_vars

\* a refresh that met two Layer 2 candidates tracks the one that passed Layer 3
C22_Witness ==
    /\ pc = "poll"
    /\ last_refresh.called
    /\ last_refresh.candidates = {"w1", "w2"}
    /\ last_refresh.survivors = {"w1"}
    /\ DOMAIN tracked_wallets = {"w1"}
    /\ tracked_wallets["w1"].win_rate = 700

\* The trade of the activity response passes the four checks, read off the
\* trade and the market record of its conditionId (notional in cents)
PassedAllChecks(t) ==
    LET notional == t.size * t.price
    IN  /\ notional >= min_trade_size_usd * 100
        /\ t.conditionId \in DOMAIN GammaMarkets
        /\ LET m == GammaMarkets[t.conditionId]
                implied == m.outcome_prices[t.outcomeIndex[1] + 1]
            IN  /\ m.active
                /\ ~m.closed
                /\ m.liquidity >= min_market_liquidity
                /\ implied <= max_probability
                /\ implied < min_probability => notional >= longshot_min_trade_usd * 100

\* C23: every Signal that a pass of check_new_trades over a wallet appends
\* comes from a trade of that wallet's response which passed the four checks:
\* notional, market active and not closed (an unknown conditionId rejected),
\* liquidity, probability ceiling and longshot minimum.
C23_SignalsPassedAllChecks ==
    [][pc = "trades" /\ todo # << >> =>
         \A s \in Emitted :
            \E i \in 1..Len(trades') :
               /\ s.trade = trades'[i].kind
               /\ s.timestamp = trades'[i].timestamp
               /\ s.wallet_address = addr'
               /\ PassedAllChecks(trades'[i])]_vars

\* a response with a large longshot and a trade on a closed market gave one
\* Signal, for the longshot
C23_Witness ==
    /\ pc = "trades"
    /\ Len(trades) = 2
    /\ {trades[i].kind : i \in 1..2} = {"whale", "settled"}
    /\ Len(signals) = 1
    /\ signals[1].trade = "whale"
    /\ signals[1].market_probability < min_probability

\* C24: when an exception leaves check_new_trades in the middle of a wallet's
\* response, that wallet's cursor is, from then until the tick's sleep, the one it
\* had when the poll started.
C24_FailedPassLeavesCursor ==
    pc \in {"poll_error", "sleep"} /\ todo # << >> =>
        Cursor(Head(todo)) = polled_ts[Head(todo)]

\* the first trade of the response gave a Signal, the second raised; the
\* response is newer than the cursor
C24_Witness ==
    /\ pc = "sleep"
    /\ todo # << >>
    /\ addr = Head(todo)
    /\ Len(trades) = 2
    /\ trades[1].kind = "buy"
    /\ trades[2].kind = "null"
    /\ trades[1].timestamp > Cursor(addr)
    /\ \E i \in 1..Len(signals) :
          signals[i].wallet_address = addr /\ signals[i].timestamp = trades[1].timestamp

\* The retained signals whose age at the clock is at least the window
Expired == {s \in Range(recent_signals) : clock - s.timestamp >= Window}

\* C25: a call of check_convergence removes from recent_signals every retained
\* signal whose age is at least the window, and the count of every signal of the
\* call is 1 plus the matching addresses among the signals that were not expired.
C25_ExpiredRemovedAndNotCounted ==
    [][pc = "convergence" =>
         /\ \A s \in Expired : \A r \in Range(recent_signals') : r.oid # s.oid
         /\ \A n \in Range(outbox') :
               n.convergence_count =
                 1 + Cardinality({r.wallet_address :
                        r \in {x \in (Range(recent_signals) \ Expired) \cup Range(signals) :
                                 /\ x.market_slug = n.market_slug
                                 /\ x.outcome = n.outcome
                                 /\ x.wallet_address # n.wallet_address
                                 /\ Abs(x.timestamp - n.timestamp) < Window}})]_vars

\* w1 was alerted at the start; exactly one window later w2's trade, 10 s old and
\* so within the window of w1's, is aggregated alone
C25_Witness ==
    /\ env.name = "window"
    /\ pc = "notify"
    /\ clock = StartTime + Window
    /\ polled_ts["w1"] = StartTime
    /\ Len(recent_signals) = 1
    /\ recent_signals[1].wallet_address = "w2"
    /\ recent_signals[1].timestamp = clock - 10
    /\ recent_signals[1].convergence_count = 1

\* The call of api_get has retries >= 1 and every request of it meets answer
Every(answer) ==
    /\ calc.retries >= 1
    /\ \A i \in 1..calc.retries : calc.answers[i] = answer

\* What holds of a call of api_get while it runs and once it has returned
ApiGetBounded ==
    /\ calc.attempt <= calc.retries
    /\ calc.ret \in {<< >>, <<"None">>, <<"json">>}
    /\ calc.ret # << >> =>
          /\ Every("429") =>
                /\ calc.ret = <<"None">>
                /\ calc.attempt = calc.retries
                /\ calc.slept = [i \in 1..calc.retries |-> 5 * 2 ^ (i - 1)]
          /\ Every("error") => calc.ret = <<"None">> /\ calc.attempt = calc.retries
          /\ \A i \in 1..calc.attempt :
                calc.answers[i] = "404" =>
                   /\ calc.attempt = i
                   /\ calc.ret = <<"None">>
                   /\ Len(calc.slept) = i - 1
          /\ calc.ret = <<"json">> <=>
                calc.attempt >= 1 /\ calc.answers[calc.attempt] = "ok"

\* C26: a call of api_get returns, after at most retries requests; it returns
\* None or the decoded body, never an exception.  When every request is answered
\* 429 it sleeps 5 * 2^attempt after the attempt numbered attempt and returns
\* None; when every request raises a request error it returns None after the
\* last one; a 404 makes it return None on that attempt.
C26_ApiGetTerminatesWithinRetries ==
    /\ [](calc.op = "api_get" => ApiGetBounded)
    /\ (calc.op = "api_get") ~> (calc.ret # << >>)

\* the default call, rate-limited three times
C26_Witness ==
    /\ calc.op = "api_get"
    /\ calc.retries = 3
    /\ \A i \in 1..3 : calc.answers[i] = "429"
    /\ calc.attempt = 3
    /\ calc.slept = <<5, 10, 20>>
    /\ calc.ret = <<"None">>

\* C27: no two bot threads are inside refresh_wallets, check_new_trades or
\* check_convergence of one and the same tracker, and a thread is inside one
\* call at a time: every tracker is used by the one thread that made it.
C27_OneActivityPerTracker ==
    \A v, w \in 1..MaxWorkers :
        /\ workers[w].pc \in Activities => workers[w].tracker # << >>
        /\ v # w /\ workers[v].pc \in Activities /\ workers[w].pc \in Activities =>
              workers[v].tracker # workers[w].tracker

\* two workers are inside different activities at the same moment
C27_Witness ==
    /\ workers[1].pc = "refresh_wallets"
    /\ workers[1].tick >= 1
    /\ workers[2].pc = "check_convergence"

\* C28: the list a trade poll returns holds no Signal of a trade (wallet, trade,
\* timestamp) of which an earlier poll returned a Signal, whatever refreshes
\* happened in between.
C28_NoTradeAlertedTwice ==
    [][pc = "trades" /\ todo = << >> =>
         \A i \in 1..Len(signals) :
            <<signals[i].wallet_address, signals[i].trade, signals[i].timestamp>>
               \notin alerted]_vars

\* w1 was alerted for a trade at the start, was not tracked at the poll of the
\* next tick (its cursor of that time is still the one recorded), and is back
\* with a cursor that started at 0, alerted for a new trade only
C28_Witness ==
    /\ env.name = "churn"
    /\ pc = "convergence"
    /\ ticks = 2
    /\ <<"w1", "buy", StartTime>> \in alerted
    /\ \E a \in Wallets \ {"w1"} : polled_ts[a] = StartTime + RefreshInterval
    /\ "w1" \in DOMAIN tracked_wallets
    /\ Cursor("w1") = clock
    /\ Len(signals) = 1
    /\ TradeOf(signals[1]) = <<"w1", "buy", clock>>

\* C29: a step of check_new_trades leaves the set of tracked addresses, every
\* field of their records other than the cursor, and recent_signals as they
\* were; every Signal it appends carries the address of a tracked wallet and
\* the tier that wallet's record holds.
C29_PollWritesOnlyCursors ==
    [][(pc = "poll" \/ pc = "trades") =>
         /\ DOMAIN tracked_wallets' = DOMAIN tracked_wallets
         /\ \A a \in DOMAIN tracked_wallets :
               Figures(tracked_wallets'[a]) = Figures(tracked_wallets[a])
         /\ recent_signals' = recent_signals
         /\ \A s \in Emitted :
               /\ s.wallet_address \in DOMAIN tracked_wallets
               /\ s.wallet_tier = tracked_wallets[s.wallet_address].tier
               /\ tracked_wallets'[s.wallet_address].tier = s.wallet_tier]_vars

\* a poll over a tier C wallet with signals retained from an earlier tick has
\* moved the cursor and built a Signal of tier C
C29_Witness ==
    /\ pc = "trades"
    /\ todo = << >>
    /\ ticks >= 1
    /\ recent_signals # << >>
    /\ tracked_wallets[addr].tier = "C"
    /\ \E i \in 1..Len(signals) :
          /\ signals[i].wallet_address = addr
          /\ signals[i].wallet_tier = "C"
          /\ signals[i].timestamp = Cursor(addr)
          /\ \A r \in Range(recent_signals) : r.timestamp < signals[i].timestamp

\* The refresh is due at the clock of the tick
RefreshDue == clock - last_tracker_refresh >= RefreshInterval

\* C30: last_tracker_refresh is set, to the clock of the tick, exactly by the
\* steps in which refresh_wallets returns, whatever it found.  After a call that
\* raised the refresh is still due, so the next tick calls it again; from the
\* second tick on the refresh is called exactly when a full interval has passed
\* since the last call that returned, and in the first tick exactly when the
\* initial scan raised.  The poll is skipped while no wallet is tracked.
C30_TimerAdvancedExactlyOnReturn ==
    [][/\ (pc = "initial_scan" \/ pc = "refresh") =>
             /\ last_tracker_refresh' =
                   IF last_refresh' # last_refresh /\ ~last_refresh'.raised
                   THEN clock ELSE last_tracker_refresh
             /\ last_refresh'.raised => clock' - last_tracker_refresh' >= RefreshInterval
       /\ pc = "initial_scan" => last_refresh'.called
       /\ pc = "refresh" /\ ticks >= 1 => (last_refresh'.called <=> RefreshDue)
       /\ pc = "refresh" /\ ticks = 0 =>
             IF RefreshDue
             THEN last_refresh.raised /\ last_refresh'.called
             ELSE ~last_refresh.raised /\ last_refresh' = last_refresh
       /\ ~(pc = "initial_scan" \/ pc = "refresh") =>
             last_tracker_refresh' = last_tracker_refresh
       /\ pc = "poll" /\ DOMAIN tracked_wallets = {} =>
             pc' = "sleep" /\ fetched_total' = fetched_total /\ signals' = << >>
       /\ pc = "trades" => DOMAIN tracked_wallets # {}]_vars

\* the initial scan and the refresh of the first tick raised; one poll period
\* later the refresh has been called again and found no survivor: the timer is
\* at this tick's clock and nothing is tracked
C30_Witness ==
    /\ env.name = "retry"
    /\ pc = "poll"
    /\ ticks = 1
    /\ clock = StartTime + trade_poll_seconds
    /\ last_refresh.called /\ ~last_refresh.raised
    /\ last_refresh.candidates # {} /\ last_refresh.survivors = {}
    /\ last_tracker_refresh = clock
    /\ DOMAIN tracked_wallets = {}

\* a poll period after an initial scan that found no candidate, the refresh is
\* not called and the poll is skipped
C30_WitnessNotRetried ==
    /\ env.name = "retry"
    /\ pc = "sleep"
    /\ ticks = 1
    /\ clock = StartTime + trade_poll_seconds
    /\ ~last_refresh.called
    /\ last_tracker_refresh = StartTime
    /\ DOMAIN tracked_wallets = {}

====
